---- MODULE Spec2Model ----
(***************************************************************************)
(* Host-side bridge layer of the Android emulator devices:                 *)
(*   - the 'tcp'/'unix' Android pipe (hw/misc/android_net_pipe.c), one     *)
(*     NetPipe connection with the fd-handler slots the main loop keeps    *)
(*     for its descriptor;                                                 *)
(*   - the goldfish tty device (hw/char/goldfish_tty.c).                   *)
(* Spec    : the NetPipe connection and its reactor.                       *)
(* SpecTty : the goldfish tty device.                                      *)
(***************************************************************************)
EXTENDS Integers, Sequences, FiniteSets, TLC

(* ------------------------------ bounds --------------------------------- *)
\* wake_on calls counted per direction
MaxArm == 2
\* buffers handed to one send/recv call
MaxBufs == 2
\* bytes in one AndroidPipeBuffer
MaxSeg == 2

(* ------------------------ NetPipe: constants --------------------------- *)
STATE_INIT == 0
STATE_CONNECTING == 1
STATE_CONNECTED == 2
STATE_CLOSING_GUEST == 3
STATE_CLOSING_SOCKET == 4

PIPE_ERROR_INVAL == -1
PIPE_ERROR_AGAIN == -2
PIPE_ERROR_IO == -4

\* the descriptor a successful nonblocking connect returns
SockFd == 5

PIPE_WAKE_READ == "READ"
PIPE_WAKE_WRITE == "WRITE"
\* a wake mask is a set of directions: | is \cup, & ~ is \
Dirs == {PIPE_WAKE_READ, PIPE_WAKE_WRITE}

NoHandler == "NULL"
ReadHandler == "net_pipe_read_handler"
WriteHandler == "net_pipe_write_handler"
ConnectWait == "wait_for_connect"

NoPipe == [hwpipe |-> FALSE, state |-> STATE_INIT, wakeWanted |-> {},
           wakeActual |-> {}, fd |-> -1]
NoIoh == [rd |-> NoHandler, wr |-> NoHandler]

VARIABLES
    pipe,       \* the NetPipe struct: hwpipe (TRUE = non-NULL), state, wakeWanted, wakeActual, fd
    life,       \* "unopened", "open" (allocated), "freed" (g_free'd)
    ioh,        \* the main loop's read and write handler for the pipe's descriptor
    crashed,    \* the process dereferenced a NULL guest pipe
    arms,       \* per direction: wake_on calls that included it
    wakes,      \* per direction: android_pipe_wake calls on the guest pipe whose mask held it
    hwCloses,   \* android_pipe_close calls made on the guest pipe
    connFailed, \* the connect completion reported failure
    wasConnected, \* the connection has been in STATE_CONNECTED
    last,       \* the last operation: op, flags, ret, socket calls made, external calls in order, pipe and handlers before
    tty,        \* struct tty_state: ptr, ptr_len, ready, data (the first data_count bytes), data_count
    irq,        \* level of the tty's interrupt line
    goldfish_64bit_guest, \* the global a write to TTY_DATA_PTR_HIGH sets
    rxNext,     \* the value of the next byte the host stream will deliver
    ttyLast,    \* the tty's last operation: op, abort, ub, ret, out, copy, at, acc, the value written and the record loaded
    run,        \* one run of the send/recv loop: op, sizes, ret, io (the socket calls made)
    board       \* the machine's goldfish ttys: serial_hds, instance_id, the devices realized, abort

pipeVars == <<pipe, life, ioh, crashed, arms, wakes, hwCloses, connFailed, wasConnected, last>>
ttyVars == <<tty, irq, goldfish_64bit_guest, rxNext, ttyLast>>
moverVars == <<run>>
boardVars == <<board>>
vars == <<pipe, life, ioh, crashed, arms, wakes, hwCloses, connFailed, wasConnected, last,
          tty, irq, goldfish_64bit_guest, rxNext, ttyLast, run, board>>

(* --------------------- NetPipe: external calls ------------------------- *)
\* One call the pipe code makes into the guest-pipe dispatcher, the main
\* loop or the socket layer.  hw: the hwpipe argument is non-NULL.
Call(f, hw, flags, rd, wr) == [f |-> f, hw |-> hw, flags |-> flags, rd |-> rd, wr |-> wr]
SetFdCall(rd, wr) == Call("qemu_set_fd_handler", FALSE, {}, rd, wr)
WakeCall(hw, flags) == Call("android_pipe_wake", hw, flags, NoHandler, NoHandler)
CloseCall(hw) == Call("android_pipe_close", hw, {}, NoHandler, NoHandler)
CloseSocketCall == Call("closesocket", FALSE, {}, NoHandler, NoHandler)
FreeCall == Call("g_free", FALSE, {}, NoHandler, NoHandler)
\* unix_nonblocking_connect / inet_nonblocking_connect: the address asked
\* for and the descriptor returned
ConnectCall(f, addr, fd) ==
    [f |-> f, hw |-> FALSE, flags |-> {}, rd |-> NoHandler, wr |-> NoHandler,
     addr |-> addr, fd |-> fd]

\* The running handler's view: the struct, the descriptor's handler slots,
\* the external calls made so far, and whether the struct was freed.
Ctx(p, h) == [pipe |-> p, ioh |-> h, calls |-> <<>>, freed |-> FALSE]

\* qemu_set_fd_handler(fd, rd, wr, opaque): the main loop keeps one read and
\* one write handler per descriptor; setting them replaces both.
qemu_set_fd_handler(x, rd, wr) ==
    [x EXCEPT !.ioh = [rd |-> rd, wr |-> wr],
              !.calls = Append(@, SetFdCall(rd, wr))]

(* ------------------------ NetPipe: functions --------------------------- *)
\* Faulty variant: frees the struct with the descriptor's handlers still
\* registered.
net_pipe_free_registered(x) ==
    LET x1 == IF x.pipe.fd >= 0
              THEN [x EXCEPT !.calls = Append(@, CloseSocketCall), !.pipe.fd = -1]
              ELSE x
    IN [x1 EXCEPT !.calls = Append(@, FreeCall), !.freed = TRUE]

net_pipe_free(x) ==
    LET x1 == IF x.pipe.fd >= 0
              THEN LET y == qemu_set_fd_handler(x, NoHandler, NoHandler)
                   IN [y EXCEPT !.calls = Append(@, CloseSocketCall),
                                !.pipe.fd = -1]
              ELSE x
    IN [x1 EXCEPT !.calls = Append(@, FreeCall), !.freed = TRUE]

\* Faulty variant: registers the read handler whatever the state.
net_pipe_reset_state_eager(x) ==
    qemu_set_fd_handler(x,
        IF PIPE_WAKE_READ \in x.pipe.wakeWanted THEN ReadHandler ELSE NoHandler,
        IF PIPE_WAKE_WRITE \in x.pipe.wakeWanted THEN WriteHandler ELSE NoHandler)

net_pipe_reset_state(x) ==
    LET write_handler == IF PIPE_WAKE_WRITE \in x.pipe.wakeWanted
                         THEN WriteHandler ELSE NoHandler
        read_handler == IF x.pipe.state = STATE_CONNECTED
                           /\ PIPE_WAKE_READ \in x.pipe.wakeWanted
                        THEN ReadHandler ELSE NoHandler
    IN qemu_set_fd_handler(x, read_handler, write_handler)

\* Faulty variant: the socket side frees the connection itself.
net_pipe_close_from_socket_freeing(x) ==
    LET x1 == IF x.pipe.hwpipe
              THEN [x EXCEPT !.calls = Append(@, CloseCall(TRUE)), !.pipe.hwpipe = FALSE]
              ELSE x
    IN net_pipe_free(x1)

\* Faulty variant: enters STATE_CLOSING_SOCKET without closing the guest pipe.
net_pipe_close_from_socket_quiet(x) ==
    IF x.pipe.state = STATE_CLOSING_GUEST
    THEN net_pipe_free(x)
    ELSE net_pipe_reset_state([x EXCEPT !.pipe.hwpipe = FALSE,
                                        !.pipe.state = STATE_CLOSING_SOCKET])

net_pipe_close_from_socket(x) ==
    IF x.pipe.state = STATE_CLOSING_GUEST
    THEN net_pipe_free(x)
    ELSE LET x1 == IF x.pipe.hwpipe
                   THEN [x EXCEPT !.calls = Append(@, CloseCall(TRUE)),
                                  !.pipe.hwpipe = FALSE]
                   ELSE x
             x2 == [x1 EXCEPT !.pipe.state = STATE_CLOSING_SOCKET]
         IN net_pipe_reset_state(x2)

\* Faulty variant: delivers the wake but leaves the direction wanted.
WakeHandler_sticky(x, d) ==
    LET x1 == [x EXCEPT !.pipe.wakeActual = @ \cup {d}]
        x2 == IF d \in x1.pipe.wakeWanted
              THEN [x1 EXCEPT !.calls = Append(@, WakeCall(x1.pipe.hwpipe, x1.pipe.wakeActual))]
              ELSE x1
    IN net_pipe_reset_state(x2)

\* The body shared by the two readiness handlers, for direction d.
WakeHandler(x, d) ==
    LET x1 == [x EXCEPT !.pipe.wakeActual = @ \cup {d}]
        x2 == IF d \in x1.pipe.wakeWanted
              THEN [x1 EXCEPT !.calls = Append(@, WakeCall(x1.pipe.hwpipe, x1.pipe.wakeActual)),
                              !.pipe.wakeWanted = @ \ {d}]
              ELSE x1
    IN net_pipe_reset_state(x2)

net_pipe_read_handler(x) == WakeHandler(x, PIPE_WAKE_READ)

net_pipe_write_handler(x) == WakeHandler(x, PIPE_WAKE_WRITE)

net_pipe_close_from_guest(x) == net_pipe_free(x)

\* Faulty variant: treats a connecting socket as ready.
net_pipe_ready_send_early(p) ==
    IF p.state = STATE_CONNECTED \/ p.state = STATE_CONNECTING THEN 0
    ELSE IF ~p.hwpipe THEN PIPE_ERROR_INVAL
    ELSE PIPE_ERROR_IO

net_pipe_ready_send(p) ==
    IF p.state = STATE_CONNECTED THEN 0
    ELSE IF p.state = STATE_CONNECTING THEN PIPE_ERROR_AGAIN
    ELSE IF ~p.hwpipe THEN PIPE_ERROR_INVAL
    ELSE PIPE_ERROR_IO

\* Faulty variant: reports the directions waited for.
net_pipe_poll_wanted(p) == p.wakeWanted

net_pipe_poll(p) == p.wakeActual

\* Faulty variant: leaves wakeActual as it was.
net_pipe_wake_on_keep(x, flags) ==
    net_pipe_reset_state([x EXCEPT !.pipe.wakeWanted = @ \cup flags])

\* Faulty variant: wakeWanted = flags instead of |= flags.
net_pipe_wake_on_replace(x, flags) ==
    net_pipe_reset_state([x EXCEPT !.pipe.wakeWanted = flags,
                                   !.pipe.wakeActual = @ \ flags])

net_pipe_wake_on(x, flags) ==
    net_pipe_reset_state([x EXCEPT !.pipe.wakeWanted = @ \cup flags,
                                   !.pipe.wakeActual = @ \ flags])

\* Faulty variant: closes from the socket side whatever the connect returned.
net_pipe_connect_handler_closing(x, fd) == net_pipe_close_from_socket(x)

net_pipe_connect_handler(x, fd) ==
    IF fd < 0
    THEN net_pipe_close_from_socket(x)
    ELSE net_pipe_reset_state([x EXCEPT !.pipe.state = STATE_CONNECTED])

(* ----------------------- Scatter/gather byte mover --------------------- *)
\* What one send()/recv() on a nonblocking socket can return when asked for
\* avail bytes: a count 0..avail, or -1 with an errno.
Errnos == {"EAGAIN", "EWOULDBLOCK", "ECONNRESET"}
SysResults(avail) ==
    {[len |-> n, errno |-> "none"] : n \in 0..avail}
        \cup {[len |-> -1, errno |-> e] : e \in Errnos}

RECURSIVE SumSizes(_)
SumSizes(sizes) == IF sizes = <<>> THEN 0 ELSE Head(sizes) + SumSizes(Tail(sizes))

\* The while loop of net_pipe_send_buffers / net_pipe_recv_buffers: every
\* way it can run on buffers of the given sizes, as the final ret and the
\* syscalls made (buffer index, offset, bytes asked, result).
\* Faulty variant: keeps only the last transfer's length.
Accumulate_last(ret, len) == len

\* Faulty variant: end-of-stream is always an error.
OnEof_error(ret) == PIPE_ERROR_IO

\* Faulty variant: would-block is reported even after bytes were moved.
OnError_again(ret, errno) ==
    IF errno = "EAGAIN" \/ errno = "EWOULDBLOCK" THEN PIPE_ERROR_AGAIN
    ELSE IF ret > 0 THEN ret
    ELSE PIPE_ERROR_IO

\* ret += (int)len after a transfer of len > 0 bytes
Accumulate(ret, len) == ret + len

\* len == 0, the end of the stream: an error unless bytes were moved
OnEof(ret) == IF ret = 0 THEN PIPE_ERROR_IO ELSE ret

\* len < 0: the bytes moved so far if any, else the error for errno
OnError(ret, errno) ==
    IF ret > 0 THEN ret
    ELSE IF errno = "EAGAIN" \/ errno = "EWOULDBLOCK" THEN PIPE_ERROR_AGAIN
    ELSE PIPE_ERROR_IO

RECURSIVE MoverLoop(_, _, _, _, _, _)
MoverLoop(sizes, buff, buff_start, count, ret, io) ==
    IF ~(count > 0)
    THEN {[ret |-> ret, io |-> io]}
    ELSE LET avail == sizes[buff] - buff_start
         IN UNION { LET io1 == Append(io, [buf |-> buff, off |-> buff_start,
                                           avail |-> avail, len |-> r.len,
                                           errno |-> r.errno])
                    IN IF r.len > 0
                       THEN LET bs == buff_start + r.len
                                adv == bs >= sizes[buff]
                            IN MoverLoop(sizes,
                                         IF adv THEN buff + 1 ELSE buff,
                                         IF adv THEN 0 ELSE bs,
                                         count - r.len, Accumulate(ret, r.len), io1)
                       ELSE IF r.len = 0
                       THEN {[ret |-> OnEof(ret), io |-> io1]}
                       ELSE {[ret |-> OnError(ret, r.errno), io |-> io1]}
                  : r \in SysResults(avail) }

\* The buffer lists a guest hands to send/recv, by the size of each buffer.
BufferLists == UNION {[1..n -> 0..MaxSeg] : n \in 0..MaxBufs}

\* What the caller sees of one run of the loop: the value returned and the
\* number of socket calls made.
Seen(outcomes) == {[ret |-> o.ret, nio |-> Len(o.io)] : o \in outcomes}

\* The loop entered with count the sum of the sizes, buff the first buffer,
\* buff_start = 0 and ret = 0, for each buffer list.
MoverSeen ==
    {[sizes |-> sz, seen |-> Seen(MoverLoop(sz, 1, 0, SumSizes(sz), 0, <<>>))] :
        sz \in BufferLists}
MoverRuns(sizes) == (CHOOSE r \in MoverSeen : r.sizes = sizes).seen

net_pipe_send_buffers(p, sizes) ==
    LET ret == net_pipe_ready_send(p)
    IN IF ret # 0
       THEN {[ret |-> ret, nio |-> 0]}
       ELSE MoverRuns(sizes)

net_pipe_recv_buffers(p, sizes) == MoverRuns(sizes)

\* The transport argument of an open, and whether the nonblocking connect
\* could be started.
OpenArgs ==
    {"NULL", "", "5555", "example.org:80", "80,to=90",
     "00000000000000000000000000000000000000000000000000005555@example.org:80"}

\* sizeof(address) in net_pipe_init_from
AddressSize == 64

\* Faulty variant: the guest's argument is the whole address.
inet_address_raw(args) == args

\* snprintf(address, sizeof(address), "127.0.0.1:%s", args): the formatted
\* text, cut to what fits with the terminating NUL.
inet_address(args) ==
    LET text == "127.0.0.1:" \o args
    IN IF Len(text) > AddressSize - 1 THEN SubSeq(text, 1, AddressSize - 1) ELSE text

\* net_pipe_init_from(hwpipe, args, is_unix) with connect_fd the value the
\* nonblocking connect returns: the new struct (ok) or NULL, and the address
\* the connect was asked for.
\* Faulty variant: returns the struct without looking at the descriptor.
net_pipe_init_from_unchecked(args, is_unix, connect_fd) ==
    IF args = "NULL" \/ args = ""
    THEN [ok |-> FALSE, pipe |-> NoPipe, target |-> "none", calls |-> <<>>]
    ELSE LET p == [hwpipe |-> TRUE, state |-> STATE_CONNECTING, wakeWanted |-> {},
                   wakeActual |-> {}, fd |-> connect_fd]
             target == IF is_unix THEN <<"unix", args>> ELSE <<"inet", inet_address(args)>>
         IN [ok |-> TRUE, pipe |-> p, target |-> target,
             calls |-> <<ConnectCall(IF is_unix THEN "unix_nonblocking_connect"
                                     ELSE "inet_nonblocking_connect", target, connect_fd)>>]

net_pipe_init_from(args, is_unix, connect_fd) ==
    IF args = "NULL" \/ args = ""
    THEN [ok |-> FALSE, pipe |-> NoPipe, target |-> "none", calls |-> <<>>]
    ELSE LET p == [hwpipe |-> TRUE, state |-> STATE_CONNECTING, wakeWanted |-> {},
                   wakeActual |-> {}, fd |-> connect_fd]
             target == IF is_unix THEN <<"unix", args>> ELSE <<"inet", inet_address(args)>>
             connect == ConnectCall(IF is_unix THEN "unix_nonblocking_connect"
                                    ELSE "inet_nonblocking_connect", target, connect_fd)
         IN IF p.fd < 0
            THEN [ok |-> FALSE, pipe |-> NoPipe, target |-> target,
                  calls |-> <<connect, FreeCall>>]
            ELSE [ok |-> TRUE, pipe |-> p, target |-> target, calls |-> <<connect>>]

(* --------------------------- NetPipe: actions -------------------------- *)
CountCalls(calls, f) == Cardinality({i \in 1..Len(calls) : calls[i].f = f})
NullGuestCall(calls) ==
    \E i \in 1..Len(calls) :
        calls[i].f \in {"android_pipe_wake", "android_pipe_close"} /\ ~calls[i].hw

\* The wake notifications among calls that reach a guest pipe and name d.
CountWakes(calls, d) ==
    Cardinality({i \in 1..Len(calls) :
                    calls[i].f = "android_pipe_wake" /\ calls[i].hw /\ d \in calls[i].flags})

Last(op, flags, ret, nio, calls) ==
    [op |-> op, flags |-> flags, ret |-> ret, nio |-> nio,
     calls |-> calls, pre |-> pipe, preIoh |-> ioh]

\* The state a handler leaves behind, x its context on return.
Commit(x) ==
    /\ pipe' = IF x.freed THEN NoPipe ELSE x.pipe
    /\ life' = IF x.freed THEN "freed" ELSE "open"
    /\ ioh' = x.ioh
    /\ crashed' = NullGuestCall(x.calls)
    /\ hwCloses' = hwCloses + CountCalls(x.calls, "android_pipe_close")
    /\ wakes' = [d \in Dirs |-> wakes[d] + CountWakes(x.calls, d)]
    /\ wasConnected' = (wasConnected \/ (~x.freed /\ x.pipe.state = STATE_CONNECTED))

PipeInit ==
    /\ pipe = NoPipe
    /\ life = "unopened"
    /\ ioh = NoIoh
    /\ crashed = FALSE
    /\ arms = [d \in Dirs |-> 0]
    /\ wakes = [d \in Dirs |-> 0]
    /\ hwCloses = 0
    /\ connFailed = FALSE
    /\ wasConnected = FALSE
    /\ last = [op |-> "none", flags |-> {}, ret |-> 0, nio |-> 0,
               calls |-> <<>>, pre |-> NoPipe, preIoh |-> NoIoh]

\* The guest opens a pipe of the tcp or unix transport.  On success the
\* nonblocking connect has left its completion handler in the descriptor's
\* write slot.  last.flags keeps the argument.
Open ==
    /\ life = "unopened"
    /\ \E args \in OpenArgs, is_unix \in BOOLEAN, connect_fd \in {-1, SockFd} :
         LET r == net_pipe_init_from(args, is_unix, connect_fd)
         IN /\ pipe' = r.pipe
            /\ life' = IF r.ok THEN "open" ELSE "unopened"
            /\ ioh' = IF r.ok THEN [rd |-> NoHandler, wr |-> ConnectWait] ELSE NoIoh
            /\ last' = Last("init", {args}, IF r.ok THEN 1 ELSE 0, 0, r.calls)
    /\ UNCHANGED <<crashed, arms, wakes, hwCloses, connFailed, wasConnected>>
    /\ UNCHANGED <<ttyVars, moverVars, boardVars>>

\* The main loop finds the connecting socket ready: the connect's completion
\* handler clears the descriptor's handlers and calls
\* net_pipe_connect_handler with the descriptor, or with -1 when the connect
\* failed.
ConnectDone ==
    /\ life = "open" /\ ~crashed
    /\ ioh.wr = ConnectWait
    /\ \E fd \in {-1, SockFd} :
         LET x == net_pipe_connect_handler(
                      qemu_set_fd_handler(Ctx(pipe, ioh), NoHandler, NoHandler), fd)
         IN /\ Commit(x)
            /\ connFailed' = (connFailed \/ fd < 0)
            /\ last' = Last("connect", {}, fd, 0, x.calls)
    /\ UNCHANGED arms
    /\ UNCHANGED <<ttyVars, moverVars, boardVars>>

\* The main loop calls the descriptor's registered read handler.
ReadReady ==
    /\ life = "open" /\ ~crashed
    /\ ioh.rd = ReadHandler
    /\ LET x == net_pipe_read_handler(Ctx(pipe, ioh))
       IN /\ Commit(x)
          /\ last' = Last("read_ready", {}, 0, 0, x.calls)
    /\ UNCHANGED <<arms, connFailed>>
    /\ UNCHANGED <<ttyVars, moverVars, boardVars>>

\* The main loop calls the descriptor's registered write handler.
WriteReady ==
    /\ life = "open" /\ ~crashed
    /\ ioh.wr = WriteHandler
    /\ LET x == net_pipe_write_handler(Ctx(pipe, ioh))
       IN /\ Commit(x)
          /\ last' = Last("write_ready", {}, 0, 0, x.calls)
    /\ UNCHANGED <<arms, connFailed>>
    /\ UNCHANGED <<ttyVars, moverVars, boardVars>>

\* The guest arms a wake for some directions.
WakeOn ==
    /\ life = "open" /\ ~crashed
    /\ \E flags \in SUBSET Dirs :
         /\ \A d \in flags : arms[d] < MaxArm
         /\ LET x == net_pipe_wake_on(Ctx(pipe, ioh), flags)
            IN /\ Commit(x)
               /\ arms' = [d \in Dirs |-> IF d \in flags THEN arms[d] + 1 ELSE arms[d]]
               /\ last' = Last("wake_on", flags, 0, 0, x.calls)
    /\ UNCHANGED connFailed
    /\ UNCHANGED <<ttyVars, moverVars, boardVars>>

\* The guest sends a list of buffers.
Send ==
    /\ life = "open" /\ ~crashed
    /\ \E o \in UNION {net_pipe_send_buffers(pipe, sizes) : sizes \in BufferLists} :
         last' = Last("send", {}, o.ret, o.nio, <<>>)
    /\ UNCHANGED <<pipe, life, ioh, crashed, arms, wakes, hwCloses, connFailed, wasConnected>>
    /\ UNCHANGED <<ttyVars, moverVars, boardVars>>

\* The guest receives into a list of buffers.
Recv ==
    /\ life = "open" /\ ~crashed
    /\ \E o \in UNION {net_pipe_recv_buffers(pipe, sizes) : sizes \in BufferLists} :
         last' = Last("recv", {}, o.ret, o.nio, <<>>)
    /\ UNCHANGED <<pipe, life, ioh, crashed, arms, wakes, hwCloses, connFailed, wasConnected>>
    /\ UNCHANGED <<ttyVars, moverVars, boardVars>>

\* The guest polls the pipe; the mask returned is kept in last.flags.
Poll ==
    /\ life = "open" /\ ~crashed
    /\ last' = Last("poll", net_pipe_poll(pipe), 0, 0, <<>>)
    /\ UNCHANGED <<pipe, life, ioh, crashed, arms, wakes, hwCloses, connFailed, wasConnected>>
    /\ UNCHANGED <<ttyVars, moverVars, boardVars>>

\* The guest closes the pipe.
CloseFromGuest ==
    /\ life = "open" /\ ~crashed
    /\ LET x == net_pipe_close_from_guest(Ctx(pipe, ioh))
       IN /\ Commit(x)
          /\ last' = Last("close", {}, 0, 0, x.calls)
    /\ UNCHANGED <<arms, connFailed>>
    /\ UNCHANGED <<ttyVars, moverVars, boardVars>>

PipeNext ==
    \/ Open
    \/ ConnectDone
    \/ ReadReady
    \/ WriteReady
    \/ WakeOn
    \/ Send
    \/ Recv
    \/ Poll
    \/ CloseFromGuest

(* ============================ goldfish tty ============================== *)
TTY_PUT_CHAR == 0
TTY_BYTES_READY == 4
TTY_CMD == 8
TTY_DATA_PTR == 16
TTY_DATA_LEN == 20
TTY_DATA_PTR_HIGH == 24
TTY_CMD_INT_DISABLE == 0
TTY_CMD_INT_ENABLE == 1
TTY_CMD_WRITE_BUFFER == 2
TTY_CMD_READ_BUFFER == 3
GOLDFISH_TTY_SAVE_VERSION == 2
\* sizeof(s->data)
DataSize == 128
\* sizeof(temp) in the write-buffer loop
TempSize == 64

\* A uint32_t is kept as the int with the same 32 bits (two's complement),
\* so 0x80000001 is -2147483647 and 0xFFFFFFFF is -1.  U32Greater compares
\* two of them as unsigned values.
U32Greater(a, b) ==
    IF (a < 0) = (b < 0) THEN a > b ELSE a < 0

\* Byte values the host stream and guest memory hold are taken modulo this.
ByteMod == 3
\* 32-bit words a guest writes to the pointer registers
PtrWords == {7, -4}
\* values a guest writes to the length register
LenValues == {0, 64, 130, -2147483647}
\* sizes of the chunks the host stream delivers
RxSizes == {40, 64}

\* deposit64(ptr, 0, 32, value) and deposit64(ptr, 32, 32, value) on a
\* pointer kept as its two 32-bit halves.
\* Faulty variant: the low-half write assigns the whole pointer.
deposit64_low_clearing(ptr, value) == [hi |-> 0, lo |-> value]

deposit64_low(ptr, value) == [hi |-> ptr.hi, lo |-> value]
deposit64_high(ptr, value) == [hi |-> value, lo |-> ptr.lo]

\* a + k on 32 bits, for 0 <= k <= TempSize, and its carry out
Add32(a, k) ==
    IF a > 2147483647 - k THEN (-2147483647 - 1) + (k - (2147483647 - a) - 1) ELSE a + k
Carry32(a, k) == a < 0 /\ a + k >= 0
AddPtr(ptr, k) ==
    [hi |-> IF Carry32(ptr.lo, k) THEN Add32(ptr.hi, 1) ELSE ptr.hi,
     lo |-> Add32(ptr.lo, k)]

\* The loop of TTY_CMD_WRITE_BUFFER on int len and target_ulong buf: the
\* chunks passed to safe_memory_rw_debug and qemu_chr_fe_write, in order.
RECURSIVE WriteBufferLoop(_, _, _)
WriteBufferLoop(buf, len, chunks) ==
    IF len = 0
    THEN chunks
    ELSE LET to_write == IF TempSize > len THEN len ELSE TempSize
         IN IF to_write < 0
            \* buf += to_write; len -= to_write leaves len = 0
            THEN Append(chunks, [addr |-> buf, len |-> to_write])
            ELSE WriteBufferLoop(AddPtr(buf, to_write), len - to_write,
                                 Append(chunks, [addr |-> buf, len |-> to_write]))

\* safe_memory_rw_debug(cpu, addr, buf, len, is_write) as built for
\* TARGET_MIPS64: the guest address cpu_memory_rw_debug is given.  Until a
\* guest has written TTY_DATA_PTR_HIGH the address is its low 32 bits,
\* sign-extended.
safe_memory_rw_debug(addr, g64) ==
    IF g64 = 0
    THEN [hi |-> IF addr.lo < 0 THEN -1 ELSE 0, lo |-> addr.lo]
    ELSE addr

\* Faulty variant: data[] is not moved down after the copy.
ReadBufferShift_none(data, ptr_len, data_count) ==
    SubSeq(data, 1, data_count - ptr_len)

\* if (data_count > ptr_len) memmove(data, data + ptr_len, data_count - ptr_len)
\* then data_count -= ptr_len: the bytes data[] holds below the new data_count
ReadBufferShift(data, ptr_len, data_count) ==
    SubSeq(data, ptr_len + 1, data_count)

NoAddr == [hi |-> 0, lo |-> 0]

\* What a register write does: the device after it, the level of the
\* interrupt line, whether cpu_abort was called, the chunks forwarded to the
\* host stream, the bytes copied to guest memory and the guest address they
\* were copied to, and the 64-bit-guest flag.
TtyResult(s, level, g64) ==
    [tty |-> s, irq |-> level, abort |-> FALSE, out |-> <<>>, copy |-> <<>>,
     at |-> NoAddr, g64 |-> g64]

\* Faulty variant: a second write to the high half switches the mode back.
PtrHighMode_toggle(g64) == 1 - g64

\* goldfish_64bit_guest = 1, on a write to TTY_DATA_PTR_HIGH
PtrHighMode(g64) == 1

\* Faulty variant: draining exactly what is buffered is refused too.
ReadBufferTooLong_orEqual(s) ==
    U32Greater(s.ptr_len, s.data_count) \/ s.ptr_len = s.data_count

\* s->ptr_len > s->data_count, on two uint32_t
ReadBufferTooLong(s) == U32Greater(s.ptr_len, s.data_count)

\* cpu_abort(current_cpu, ...): the access ends there, with r as it stands
cpu_abort(r) == [r EXCEPT !.abort = TRUE]

goldfish_tty_write(s, level, g64, offset, value) ==
    LET same == TtyResult(s, level, g64)
    IN CASE offset = TTY_PUT_CHAR ->
              IF s.cs THEN [same EXCEPT !.out = <<[addr |-> [hi |-> 0, lo |-> 0], len |-> 1]>>]
              ELSE same
         [] offset = TTY_CMD ->
              CASE value = TTY_CMD_INT_DISABLE ->
                     IF s.ready # 0
                     THEN [same EXCEPT !.irq = IF s.data_count > 0 THEN 0 ELSE level,
                                       !.tty.ready = 0]
                     ELSE same
                [] value = TTY_CMD_INT_ENABLE ->
                     IF s.ready = 0
                     THEN [same EXCEPT !.irq = IF s.data_count > 0 THEN 1 ELSE level,
                                       !.tty.ready = 1]
                     ELSE same
                [] value = TTY_CMD_WRITE_BUFFER ->
                     IF s.cs
                     THEN [same EXCEPT !.out = WriteBufferLoop(s.ptr, s.ptr_len, <<>>)]
                     ELSE same
                [] value = TTY_CMD_READ_BUFFER ->
                     IF ReadBufferTooLong(s)
                     THEN cpu_abort(same)
                     ELSE LET n == s.data_count - s.ptr_len
                          IN [same EXCEPT
                                !.copy = SubSeq(s.data, 1, s.ptr_len),
                                !.at = safe_memory_rw_debug(s.ptr, g64),
                                !.tty.data = ReadBufferShift(s.data, s.ptr_len, s.data_count),
                                !.tty.data_count = n,
                                !.irq = IF n = 0 /\ s.ready # 0 THEN 0 ELSE level]
                [] OTHER -> cpu_abort(same)
         [] offset = TTY_DATA_PTR ->
              [same EXCEPT !.tty.ptr = deposit64_low(s.ptr, value)]
         [] offset = TTY_DATA_PTR_HIGH ->
              [same EXCEPT !.g64 = PtrHighMode(g64), !.tty.ptr = deposit64_high(s.ptr, value)]
         [] offset = TTY_DATA_LEN ->
              [same EXCEPT !.tty.ptr_len = value]
         [] OTHER -> cpu_abort(same)

\* Faulty variant: the whole buffer is advertised whatever it holds.
tty_can_receive_whole(s) == DataSize

tty_can_receive(s) == DataSize - s.data_count

\* Faulty variant: buffers the bytes without touching the interrupt line.
tty_receive_silent(s, level, buf) ==
    [tty |-> [s EXCEPT !.data = s.data \o buf, !.data_count = s.data_count + Len(buf)],
     irq |-> level]

tty_receive(s, level, buf) ==
    LET n == s.data_count + Len(buf)
    IN [tty |-> [s EXCEPT !.data = s.data \o buf, !.data_count = n],
        irq |-> IF n > 0 /\ s.ready # 0 THEN 1 ELSE level]

(* ---------------------------- tty: save/load --------------------------- *)
\* qemu_put_be32 / qemu_get_be32 on the int that holds the 32 bits
PutBe32(v) ==
    <<(v \div 16777216) % 256, (v \div 65536) % 256, (v \div 256) % 256, v % 256>>
GetByte(f, i) == IF i <= Len(f) THEN f[i] ELSE 0
GetBe32(f, i) ==
    LET b3 == GetByte(f, i)
    IN (IF b3 >= 128 THEN b3 - 256 ELSE b3) * 16777216
         + GetByte(f, i + 1) * 65536 + GetByte(f, i + 2) * 256 + GetByte(f, i + 3)

\* Faulty variant: only the low half of the pointer is written.
goldfish_tty_save_narrow(s) ==
    PutBe32(s.ptr.lo) \o PutBe32(s.ptr_len)
        \o <<s.ready % 256, s.data_count % 256>>
        \o SubSeq(s.data, 1, s.data_count)

\* The record goldfish_tty_save writes, as its bytes.
goldfish_tty_save(s) ==
    PutBe32(s.ptr.hi) \o PutBe32(s.ptr.lo) \o PutBe32(s.ptr_len)
        \o <<s.ready % 256, s.data_count % 256>>
        \o SubSeq(s.data, 1, s.data_count)

\* The same state as a record of the previous version (a 32-bit pointer).
LegacyRecord(s) ==
    PutBe32(s.ptr.lo) \o PutBe32(s.ptr_len)
        \o <<s.ready % 256, s.data_count % 256>>
        \o SubSeq(s.data, 1, s.data_count)

\* data_count after qemu_get_buffer has copied n > DataSize bytes over
\* data[] and on into the field that follows it in struct tty_state, on a
\* host of either byte order.
RECURSIVE OverrunCount(_, _, _, _, _, _)
OverrunCount(f, at, n, count, k, big_endian) ==
    IF k > 4 THEN 0
    ELSE LET b == IF DataSize + k <= n THEN GetByte(f, at + DataSize + k - 1)
                  ELSE IF k = (IF big_endian THEN 4 ELSE 1) THEN count ELSE 0
             rest == OverrunCount(f, at, n, count, k + 1, big_endian)
         IN IF big_endian
            THEN IF k = 1 THEN (IF b >= 128 THEN b - 256 ELSE b) * 16777216 + rest
                 ELSE IF k = 2 THEN b * 65536 + rest
                 ELSE IF k = 3 THEN b * 256 + rest
                 ELSE b + rest
            ELSE IF k = 4 THEN (IF b >= 128 THEN b - 256 ELSE b) * 16777216 + rest
                 ELSE IF k = 3 THEN b * 65536 + rest
                 ELSE IF k = 2 THEN b * 256 + rest
                 ELSE b + rest

\* Faulty variant: the 32-bit pointer is sign-extended.
LegacyPtr_signed(f) ==
    [hi |-> IF GetBe32(f, 1) < 0 THEN -1 ELSE 0, lo |-> GetBe32(f, 1)]

\* s->ptr = (uint64_t)qemu_get_be32(f)
LegacyPtr(f) == [hi |-> 0, lo |-> GetBe32(f, 1)]

\* Faulty variant: every version is decoded.
VersionRecognized_any(version_id) == TRUE

\* the versions goldfish_tty_load decodes: the current one and the one before
VersionRecognized(version_id) ==
    ~(version_id # GOLDFISH_TTY_SAVE_VERSION /\ version_id # GOLDFISH_TTY_SAVE_VERSION - 1)

\* goldfish_tty_load on the record f.  got is what qemu_get_buffer returns.
goldfish_tty_load(s, level, f, version_id, got, big_endian) ==
    IF ~VersionRecognized(version_id)
    THEN [tty |-> s, irq |-> level, ret |-> -1, ub |-> FALSE]
    ELSE LET legacy == version_id = GOLDFISH_TTY_SAVE_VERSION - 1
             ptr == IF legacy THEN LegacyPtr(f)
                    ELSE [hi |-> GetBe32(f, 1), lo |-> GetBe32(f, 5)]
             at == IF legacy THEN 5 ELSE 9
             ptr_len == GetBe32(f, at)
             ready == GetByte(f, at + 4)
             count == GetByte(f, at + 5)
             ub == count > DataSize
             kept == IF count > DataSize THEN DataSize ELSE count
             read == IF got < kept THEN got ELSE kept
             old == IF Len(s.data) < kept THEN Len(s.data) ELSE kept
             \* the bytes read, then what data[] held beyond them
             data == SubSeq(f, at + 6, at + 5 + read) \o SubSeq(s.data, read + 1, old)
                        \o [i \in 1..(kept - (IF old > read THEN old ELSE read)) |-> 0]
             data_count == IF ub THEN OverrunCount(f, at + 6, got, count, 1, big_endian) ELSE count
             s1 == [s EXCEPT !.ptr = ptr, !.ptr_len = ptr_len, !.ready = ready,
                             !.data = data, !.data_count = data_count]
         IN IF got < 0
            THEN [tty |-> s1, irq |-> level, ret |-> -1, ub |-> ub]
            ELSE [tty |-> s1,
                  irq |-> IF ready # 0 /\ U32Greater(data_count, 0) THEN 1 ELSE 0,
                  ret |-> 0, ub |-> ub]

goldfish_tty_read(s, offset) ==
    IF offset = TTY_BYTES_READY
    THEN [ret |-> s.data_count, abort |-> FALSE]
    ELSE [ret |-> 0, abort |-> TRUE]

(* ----------------------------- tty: actions ---------------------------- *)
TtyLast(op, abort, ub, ret, out, copy) ==
    [op |-> op, abort |-> abort, ub |-> ub, ret |-> ret, out |-> out, copy |-> copy,
     at |-> NoAddr, version |-> 0, f |-> <<>>, acc |-> <<>>, value |-> 0]

\* What qemu_chr_fe_write(cs, buf, len) can return: the number of bytes the
\* host stream took, which is all of them or, when its transport takes no
\* more for now, fewer.
ChrWriteResults(len) == IF len <= 0 THEN {0} ELSE {len, len \div 2}

RECURSIVE Accepts(_)
\* the ways the host stream can take the chunks written to it, one count a chunk
Accepts(chunks) ==
    IF chunks = <<>> THEN {<<>>}
    ELSE {<<a>> \o rest : a \in ChrWriteResults(Head(chunks).len),
                          rest \in Accepts(Tail(chunks))}

\* cpu_abort ends the process, and so may a load that overran data[].
TtyRunning == ~ttyLast.abort /\ ~ttyLast.ub

\* The next n bytes of the host stream.
RxBytes(n) == [i \in 1..n |-> (rxNext + i - 1) % ByteMod]

\* Records a state load may be handed, each with its version: the device's
\* own state as saved now, the same in the previous format, and records a
\* snapshot taken in another state holds.
SampleStates ==
    {[cs |-> TRUE, ptr |-> [hi |-> 7, lo |-> -4], ptr_len |-> 64, ready |-> 1,
      data |-> [i \in 1..40 |-> i % ByteMod], data_count |-> 40],
     [cs |-> TRUE, ptr |-> [hi |-> 0, lo |-> 7], ptr_len |-> 0, ready |-> 0,
      data |-> <<>>, data_count |-> 0]}
OverrunRecord ==
    PutBe32(0) \o PutBe32(7) \o PutBe32(1) \o <<1, 132>> \o [i \in 1..132 |-> IF i = 129 THEN 2 ELSE 0]
SampleRecords ==
    {[version |-> GOLDFISH_TTY_SAVE_VERSION, f |-> goldfish_tty_save(t)] : t \in SampleStates}
        \cup {[version |-> GOLDFISH_TTY_SAVE_VERSION - 1, f |-> LegacyRecord(t)] : t \in SampleStates}
        \cup {[version |-> v, f |-> goldfish_tty_save(t)] : v \in {0, 3}, t \in SampleStates}
        \cup {[version |-> GOLDFISH_TTY_SAVE_VERSION, f |-> OverrunRecord]}
LoadRecords(s) ==
    {[version |-> GOLDFISH_TTY_SAVE_VERSION, f |-> goldfish_tty_save(s)],
     [version |-> GOLDFISH_TTY_SAVE_VERSION - 1, f |-> LegacyRecord(s)]} \cup SampleRecords

TtyInit ==
    /\ tty \in {[cs |-> c, ptr |-> [hi |-> 0, lo |-> 0], ptr_len |-> 0, ready |-> 0,
                 data |-> <<>>, data_count |-> 0] : c \in BOOLEAN}
    /\ irq = 0
    /\ goldfish_64bit_guest = 0
    /\ rxNext = 0
    /\ ttyLast = TtyLast("none", FALSE, FALSE, 0, <<>>, <<>>)

\* A guest write to a device register.
TtyWrite(op, offset, value) ==
    \E r \in {goldfish_tty_write(tty, irq, goldfish_64bit_guest, offset, value)} :
    \E acc \in Accepts(r.out) :
       /\ tty' = r.tty
       /\ irq' = r.irq
       /\ goldfish_64bit_guest' = r.g64
       /\ ttyLast' = [TtyLast(op, r.abort, FALSE, 0, r.out, r.copy)
                         EXCEPT !.at = r.at, !.acc = acc, !.value = value]
       /\ UNCHANGED rxNext
       /\ UNCHANGED <<pipeVars, moverVars, boardVars>>

TtyPutChar == TtyRunning /\ TtyWrite("put_char", TTY_PUT_CHAR, 1)
TtyIntDisable == TtyRunning /\ TtyWrite("int_disable", TTY_CMD, TTY_CMD_INT_DISABLE)
TtyIntEnable == TtyRunning /\ TtyWrite("int_enable", TTY_CMD, TTY_CMD_INT_ENABLE)
TtyWriteBuffer == TtyRunning /\ TtyWrite("write_buffer", TTY_CMD, TTY_CMD_WRITE_BUFFER)
TtyReadBuffer == TtyRunning /\ TtyWrite("read_buffer", TTY_CMD, TTY_CMD_READ_BUFFER)
TtySetPtr == TtyRunning /\ \E w \in PtrWords : TtyWrite("data_ptr", TTY_DATA_PTR, w)
TtySetPtrHigh == TtyRunning /\ \E w \in PtrWords : TtyWrite("data_ptr_high", TTY_DATA_PTR_HIGH, w)
TtySetLen == TtyRunning /\ \E n \in LenValues : TtyWrite("data_len", TTY_DATA_LEN, n)
\* a command or a register offset the device does not know
TtyBadAccess ==
    /\ TtyRunning
    /\ \E a \in {<<TTY_CMD, 4>>, <<12, 0>>} : TtyWrite("bad_access", a[1], a[2])

\* A guest read of a device register.
TtyRead ==
    /\ TtyRunning
    /\ \E offset \in {TTY_BYTES_READY, TTY_CMD} :
         LET r == goldfish_tty_read(tty, offset)
         IN ttyLast' = TtyLast("read", r.abort, FALSE, r.ret, <<>>, <<>>)
    /\ UNCHANGED <<tty, irq, goldfish_64bit_guest, rxNext>>
    /\ UNCHANGED <<pipeVars, moverVars, boardVars>>

\* The host stream has bytes: it asks tty_can_receive and hands at most that
\* many to tty_receive.
TtyReceive ==
    /\ TtyRunning
    /\ tty.cs
    /\ \E size \in RxSizes :
         /\ size <= tty_can_receive(tty)
         /\ LET r == tty_receive(tty, irq, RxBytes(size))
            IN /\ tty' = r.tty
               /\ irq' = r.irq
         /\ rxNext' = (rxNext + size) % ByteMod
         /\ ttyLast' = TtyLast("receive", FALSE, FALSE, size, <<>>, <<>>)
    /\ UNCHANGED goldfish_64bit_guest
    /\ UNCHANGED <<pipeVars, moverVars, boardVars>>

\* A snapshot of the device is written.
TtySave ==
    /\ TtyRunning
    /\ ttyLast' = TtyLast("save", FALSE, FALSE, Len(goldfish_tty_save(tty)), <<>>, <<>>)
    /\ UNCHANGED <<tty, irq, goldfish_64bit_guest, rxNext>>
    /\ UNCHANGED <<pipeVars, moverVars, boardVars>>

\* A snapshot is loaded into the device.  qemu_get_buffer returns the number
\* of bytes it read, which is never negative.
TtyLoad ==
    /\ TtyRunning
    /\ \E rec \in LoadRecords(tty) :
         LET at == IF rec.version = GOLDFISH_TTY_SAVE_VERSION - 1 THEN 11 ELSE 15
             asked == GetByte(rec.f, at - 1)
             avail == Len(rec.f) - at + 1
             got == IF asked <= avail THEN asked ELSE IF avail > 0 THEN avail ELSE 0
         IN \E big_endian \in IF asked > DataSize THEN BOOLEAN ELSE {FALSE} :
            \E r \in {goldfish_tty_load(tty, irq, rec.f, rec.version, got, big_endian)} :
            /\ tty' = r.tty
            /\ irq' = r.irq
            /\ ttyLast' = [TtyLast("load", FALSE, r.ub, r.ret, <<>>, <<>>)
                              EXCEPT !.version = rec.version, !.f = rec.f]
    /\ UNCHANGED <<goldfish_64bit_guest, rxNext>>
    /\ UNCHANGED <<pipeVars, moverVars, boardVars>>

TtyNext ==
    \/ TtyPutChar
    \/ TtyIntDisable
    \/ TtyIntEnable
    \/ TtyWriteBuffer
    \/ TtyReadBuffer
    \/ TtySetPtr
    \/ TtySetPtrHigh
    \/ TtySetLen
    \/ TtyBadAccess
    \/ TtyRead
    \/ TtyReceive
    \/ TtySave
    \/ TtyLoad

(* --------------------------- byte mover: runs -------------------------- *)
NoRun == [op |-> "none", sizes |-> <<>>, ret |-> 0, io |-> <<>>]

MoverInit == run = NoRun

\* One call of net_pipe_send_buffers on a connected pipe, from the count loop
\* on: the buffers it was given, the socket calls it made and its result.
\* Calls do not depend on earlier ones, so one is followed to its return.
SendRun ==
    /\ run = NoRun
    /\ \E sizes \in BufferLists :
         \E o \in MoverLoop(sizes, 1, 0, SumSizes(sizes), 0, <<>>) :
            run' = [op |-> "send", sizes |-> sizes, ret |-> o.ret, io |-> o.io]
    /\ UNCHANGED <<pipeVars, ttyVars, boardVars>>

\* The same for net_pipe_recv_buffers.
RecvRun ==
    /\ run = NoRun
    /\ \E sizes \in BufferLists :
         \E o \in MoverLoop(sizes, 1, 0, SumSizes(sizes), 0, <<>>) :
            run' = [op |-> "recv", sizes |-> sizes, ret |-> o.ret, io |-> o.io]
    /\ UNCHANGED <<pipeVars, ttyVars, boardVars>>

(* ------------------------ goldfish tty: realize ------------------------ *)
\* MAX_SERIAL_PORTS comes from a header outside these sources (4 in QEMU's
\* sysemu.h); realize is followed for that value and for smaller ones.
MAX_SERIAL_PORTS == 4
SerialPortCounts == {2, 3, MAX_SERIAL_PORTS}

\* instance_id is 0 before any device exists; serial_hds is the set of
\* indices whose entry is non-NULL, fixed by the command line.
NoBoard == [configured |-> FALSE, max |-> 0, serial_hds |-> {}, instance_id |-> 0,
            devices |-> <<>>, abort |-> FALSE]

\* The first non-NULL entry of serial_hds, -1 (s->cs stays NULL) without one.
FirstSerial(hds) == IF hds = {} THEN -1 ELSE CHOOSE i \in hds : \A j \in hds : i <= j

\* goldfish_tty_realize: the abort test, the character device picked, the
\* id handed to register_savevm, and the counter's increment.
goldfish_tty_realize(b) ==
    IF b.instance_id + 1 = b.max
    THEN [b EXCEPT !.abort = TRUE]
    ELSE [b EXCEPT !.devices = Append(@, [id |-> b.instance_id,
                                          cs |-> FirstSerial(b.serial_hds)]),
                   !.instance_id = @ + 1]

BoardInit == board = NoBoard

\* The emulator starts: the build's MAX_SERIAL_PORTS and the -serial
\* options decide serial_hds.
BoardConfigure ==
    /\ ~board.configured
    /\ \E m \in SerialPortCounts : \E hds \in SUBSET (0 .. m - 1) :
         board' = [NoBoard EXCEPT !.configured = TRUE, !.max = m, !.serial_hds = hds]
    /\ UNCHANGED <<pipeVars, ttyVars, moverVars>>

\* The board creates one more goldfish tty.  cpu_abort ends the process.
Realize ==
    /\ board.configured /\ ~board.abort
    /\ board' = goldfish_tty_realize(board)
    /\ UNCHANGED <<pipeVars, ttyVars, moverVars>>

(* ---------------------------- specifications --------------------------- *)
Init == PipeInit /\ TtyInit /\ MoverInit /\ BoardInit

Next == PipeNext

Spec == Init /\ [][Next]_vars

\* The main loop calls a registered handler whose descriptor is ready: a
\* connect that completes makes the socket writable, and so does a connected
\* socket with room; a readable one is a peer that sent or closed.
SpecFair ==
    /\ Spec
    /\ WF_vars(ConnectDone)
    /\ WF_vars(ReadReady)
    /\ WF_vars(WriteReady)

NextTty == TtyNext

SpecTty == Init /\ [][NextTty]_vars

NextMover == SendRun \/ RecvRun

SpecMover == Init /\ [][NextMover]_vars

NextBoard == BoardConfigure \/ Realize

SpecBoard == Init /\ [][NextBoard]_vars

(* ============================== properties ============================== *)
WakeCount(calls) == CountCalls(calls, "android_pipe_wake")
CloseCount(calls) == CountCalls(calls, "android_pipe_close")
ReadyOp(d) == IF d = PIPE_WAKE_READ THEN "read_ready" ELSE "write_ready"
ReadyHandler(d) == IF d = PIPE_WAKE_READ THEN ReadHandler ELSE WriteHandler
Slot(h, d) == IF d = PIPE_WAKE_READ THEN h.rd ELSE h.wr
Closing(p) == p.state = STATE_CLOSING_GUEST \/ p.state = STATE_CLOSING_SOCKET
Live(p) == p.state = STATE_CONNECTING \/ p.state = STATE_CONNECTED

\* C1: initially and after every tty operation that leaves the device running
\* (interrupt enable/disable, read/write buffer, put char, pointer and length
\* writes, bytes received from the host stream, a state load within the
\* buffer), the interrupt line is asserted exactly when ready is set and
\* data_count is greater than 0.
C1_IrqIffReadyAndData ==
    ~ttyLast.ub => ((irq = 1) <=> (tty.ready # 0 /\ tty.data_count > 0))

\* a load that returned 0 asserted the line over buffered bytes
C1_Witness ==
    /\ ttyLast.op = "load" /\ ttyLast.ret = 0 /\ ~ttyLast.ub
    /\ irq = 1 /\ tty.ready # 0 /\ tty.data_count > 0

\* C2: for each direction d, the wake notifications delivered to the guest
\* pipe that name d never outnumber the wake_on calls that included d.
C2_WakesWithinArms == \A d \in Dirs : wakes[d] <= arms[d]

\* C3: no call into the guest-pipe dispatcher (android_pipe_wake,
\* android_pipe_close) is made with the hwpipe that was set to NULL.
C3_NoCallOnAbsentGuest == ~NullGuestCall(last.calls)

\* C4: every transition out of STATE_CONNECTING / STATE_CONNECTED starts by
\* clearing the descriptor's handlers, before the guest pipe is closed, and
\* no readiness handler of the connection runs once it has left those states.
C4_UnregisteredFirst ==
    /\ (last.op \in {"close", "connect"} /\ Live(last.pre)
           /\ (life = "freed" \/ Closing(pipe)))
          => /\ Len(last.calls) > 0
             /\ last.calls[1] = SetFdCall(NoHandler, NoHandler)
    /\ last.op \in {"read_ready", "write_ready"} => Live(last.pre)

\* C5: recv makes socket calls only in STATE_CONNECTED; in STATE_CONNECTING it
\* returns PIPE_ERROR_AGAIN and in a closing state PIPE_ERROR_INVAL, with no
\* socket call made.
C5_RecvLegality ==
    (last.op = "recv" /\ last.pre.state # STATE_CONNECTED)
        => /\ last.nio = 0
           /\ last.ret = IF last.pre.state = STATE_CONNECTING
                         THEN PIPE_ERROR_AGAIN ELSE PIPE_ERROR_INVAL

\* C6: send makes socket calls only in STATE_CONNECTED; in STATE_CONNECTING it
\* returns PIPE_ERROR_AGAIN and in a closing state PIPE_ERROR_INVAL, with no
\* socket call made and state, wakeWanted, wakeActual and the handlers as
\* they were.
C6_SendLegality ==
    (last.op = "send" /\ last.pre.state # STATE_CONNECTED)
        => /\ last.nio = 0
           /\ last.ret = IF last.pre.state = STATE_CONNECTING
                         THEN PIPE_ERROR_AGAIN ELSE PIPE_ERROR_INVAL
           /\ pipe = last.pre
           /\ ioh = last.preIoh

\* send refused on a connection the socket side has closed
C6_Witness ==
    /\ last.op = "send" /\ last.pre.state = STATE_CLOSING_SOCKET
    /\ last.ret = PIPE_ERROR_INVAL /\ last.nio = 0

\* C7: a failed connect takes the connection from STATE_CONNECTING straight
\* to STATE_CLOSING_SOCKET, and from then on, to the end of the connection's
\* life, android_pipe_close has been called on its guest pipe exactly once
\* and the connection has never been STATE_CONNECTED.
C7_ConnectFailureClosesOnce ==
    /\ (last.op = "connect" /\ last.ret < 0)
          => /\ last.pre.state = STATE_CONNECTING
             /\ pipe.state = STATE_CLOSING_SOCKET
             /\ CloseCount(last.calls) = 1
    /\ connFailed => (hwCloses = 1 /\ ~wasConnected)

\* the guest has closed and freed a connection whose connect had failed
C7_Witness == connFailed /\ life = "freed" /\ hwCloses = 1

\* C8 as stated: an I/O failure or end-of-stream seen by send/recv in
\* STATE_CONNECTED moves the connection to STATE_CLOSING_SOCKET and closes
\* the guest pipe.
C8_IoFailureCloses ==
    (last.op \in {"send", "recv"} /\ last.pre.state = STATE_CONNECTED
        /\ last.ret = PIPE_ERROR_IO)
        => (pipe.state = STATE_CLOSING_SOCKET /\ hwCloses >= 1)

\* C8: an I/O failure or end-of-stream seen by send/recv in STATE_CONNECTED
\* is only returned to the caller (PIPE_ERROR_IO, or the bytes moved so far):
\* the connection stays as it was and the guest pipe is not closed.  A
\* connection is in STATE_CLOSING_SOCKET only after a failed connect, which
\* closed the guest pipe once.
C8_IoFailureOnlyReturned ==
    /\ (last.op \in {"send", "recv"} /\ last.pre.state = STATE_CONNECTED)
          => /\ pipe = last.pre
             /\ ioh = last.preIoh
             /\ hwCloses = 0
             /\ last.calls = <<>>
    /\ (life = "open" /\ pipe.state = STATE_CLOSING_SOCKET)
          => (connFailed /\ hwCloses = 1 /\ ~pipe.hwpipe)

\* recv met end-of-stream or a hard error on a connected socket
C8_Witness ==
    /\ last.op = "recv" /\ last.pre.state = STATE_CONNECTED
    /\ last.ret = PIPE_ERROR_IO /\ last.nio > 0
    /\ pipe.state = STATE_CONNECTED /\ pipe.hwpipe

\* C9: with a live guest pipe, a readiness callback for a direction that
\* wake_on armed delivers exactly one wake and clears the direction from
\* wakeWanted; a direction not in wakeWanted has no handler registered, and a
\* readiness callback for it delivers nothing.
C9_OneWakePerArm ==
    \A d \in Dirs :
        /\ (last.op = ReadyOp(d) /\ last.pre.hwpipe)
              => /\ WakeCount(last.calls) = (IF d \in last.pre.wakeWanted THEN 1 ELSE 0)
                 /\ d \notin pipe.wakeWanted
        /\ (life = "open" /\ d \notin pipe.wakeWanted) => Slot(ioh, d) # ReadyHandler(d)

\* read-ready after wake_on(READ): one wake, READ no longer wanted, the read
\* handler gone
C9_Witness ==
    /\ last.op = "read_ready" /\ PIPE_WAKE_READ \in last.pre.wakeWanted
    /\ WakeCount(last.calls) = 1
    /\ PIPE_WAKE_READ \notin pipe.wakeWanted
    /\ ioh.rd = NoHandler

\* C10: a guest close in STATE_CONNECTING or STATE_CONNECTED clears the
\* descriptor's handlers, closes the socket and frees the struct, in that
\* order and with no call into the guest pipe; once freed, no handler is
\* registered and no operation of the connection has run since the close.
C10_GuestCloseSynchronous ==
    /\ (last.op = "close" /\ Live(last.pre))
          => /\ last.calls = <<SetFdCall(NoHandler, NoHandler), CloseSocketCall, FreeCall>>
             /\ life = "freed"
    /\ life = "freed" => (ioh = NoIoh /\ last.op = "close")

\* a connected pipe with a wake armed was closed by the guest
C10_Witness ==
    /\ life = "freed" /\ last.op = "close"
    /\ last.pre.state = STATE_CONNECTED
    /\ last.preIoh # NoIoh

\* C11: a connection in STATE_CLOSING_SOCKET stays allocated and keeps its
\* descriptor through every operation but the guest's close (no closesocket,
\* no g_free); the guest's close then calls closesocket once and g_free once.
C11_ClosingSocketHeldUntilGuestClose ==
    /\ ((last.op = "connect" /\ last.ret < 0)
            \/ (last.pre.state = STATE_CLOSING_SOCKET /\ last.op # "close"))
          => /\ life = "open"
             /\ pipe.state = STATE_CLOSING_SOCKET
             /\ pipe.fd = last.pre.fd /\ pipe.fd >= 0
             /\ CountCalls(last.calls, "closesocket") = 0
             /\ CountCalls(last.calls, "g_free") = 0
    /\ (last.op = "close" /\ last.pre.state = STATE_CLOSING_SOCKET)
          => /\ life = "freed"
             /\ CountCalls(last.calls, "closesocket") = 1
             /\ CountCalls(last.calls, "g_free") = 1

\* the guest's close of a connection the socket side had closed
C11_Witness ==
    /\ last.op = "close" /\ last.pre.state = STATE_CLOSING_SOCKET
    /\ ~last.pre.hwpipe /\ life = "freed"

RECURSIVE Moved(_)
\* the sum of the positive results among the socket calls io
Moved(io) ==
    IF io = <<>> THEN 0
    ELSE (IF Head(io).len > 0 THEN Head(io).len ELSE 0) + Moved(Tail(io))
Ran == run.op # "none"
LastIo == run.io[Len(run.io)]
WouldBlock(errno) == errno = "EAGAIN" \/ errno = "EWOULDBLOCK"

C13_EndOfStream ==
    (Ran /\ run.io # <<>> /\ LastIo.len = 0)
        => run.ret = IF Moved(run.io) = 0 THEN PIPE_ERROR_IO ELSE Moved(run.io)

\* end of stream after a partial transfer
C13_Witness ==
    /\ run.op = "recv" /\ run.io # <<>> /\ LastIo.len = 0 /\ LastIo.avail > 0
    /\ run.ret > 0 /\ run.ret < SumSizes(run.sizes)

\* C14: when a socket call fails the call returns the bytes moved so far if
\* there are any, else PIPE_ERROR_AGAIN for EAGAIN / EWOULDBLOCK and
\* PIPE_ERROR_IO for any other error.
C14_SocketError ==
    (Ran /\ run.io # <<>> /\ LastIo.len < 0)
        => run.ret = IF Moved(run.io) > 0 THEN Moved(run.io)
                     ELSE IF WouldBlock(LastIo.errno) THEN PIPE_ERROR_AGAIN
                     ELSE PIPE_ERROR_IO

\* the first socket call would block
C14_Witness ==
    /\ run.op = "send" /\ Len(run.io) = 1 /\ LastIo.errno = "EWOULDBLOCK"
    /\ run.ret = PIPE_ERROR_AGAIN

\* C15: a direction enters wakeActual only in the readiness handler of that
\* direction, wake_on leaves none of its directions in wakeActual, and a new
\* connection starts with wakeActual empty: so wakeActual holds only
\* directions reported ready since they were last armed.
C15_ActualOnlyFromReadiness ==
    /\ \A d \in Dirs :
          (d \in pipe.wakeActual /\ d \notin last.pre.wakeActual) => last.op = ReadyOp(d)
    /\ last.op = "wake_on" => pipe.wakeActual \cap last.flags = {}
    /\ last.op = "init" => pipe.wakeActual = {}

\* write-ready put WRITE into wakeActual while READ was not reported
C15_Witness ==
    /\ last.op = "write_ready"
    /\ PIPE_WAKE_WRITE \notin last.pre.wakeActual
    /\ pipe.wakeActual = {PIPE_WAKE_WRITE}
    /\ PIPE_WAKE_READ \in pipe.wakeWanted

\* C16: an operation on a connection removes a direction from wakeWanted
\* exactly when it delivers a wake naming that direction to the guest pipe:
\* no bit is cleared without such a wake, and a readiness handler delivers no
\* wake without clearing the bit of its direction.
C16_WantedClearedWithWake ==
    \A d \in Dirs :
        /\ (life = "open" /\ last.op \notin {"none", "init"}
               /\ d \in last.pre.wakeWanted /\ d \notin pipe.wakeWanted)
              => (last.op = ReadyOp(d) /\ CountWakes(last.calls, d) = 1)
        /\ (last.op = ReadyOp(d) /\ WakeCount(last.calls) > 0)
              => (d \in last.pre.wakeWanted /\ d \notin pipe.wakeWanted)

\* C17: while a connection exists, its write handler is registered exactly
\* when WRITE is in wakeWanted, and its read handler exactly when the state
\* is STATE_CONNECTED and READ is in wakeWanted; so no read handler is
\* registered in STATE_CONNECTING.
C17_HandlersFollowWanted ==
    life = "open"
        => /\ (ioh.wr = WriteHandler) <=> (PIPE_WAKE_WRITE \in pipe.wakeWanted)
           /\ (ioh.rd = ReadHandler)
                 <=> (pipe.state = STATE_CONNECTED /\ PIPE_WAKE_READ \in pipe.wakeWanted)

\* wake_on(READ|WRITE) on a connecting pipe: only the write handler is set
C17_Witness ==
    /\ last.op = "wake_on" /\ pipe.state = STATE_CONNECTING
    /\ pipe.wakeWanted = Dirs
    /\ ioh.rd = NoHandler /\ ioh.wr = WriteHandler

\* C18: wake_on(flags) leaves wakeWanted = old wakeWanted | flags and
\* wakeActual = old wakeActual & ~flags, and state, fd and hwpipe as they
\* were.
C18_WakeOnEffect ==
    last.op = "wake_on"
        => /\ life = "open"
           /\ pipe = [last.pre EXCEPT !.wakeWanted = @ \cup last.flags,
                                      !.wakeActual = @ \ last.flags]

\* wake_on(READ) with both directions reported and WRITE still wanted
C18_Witness ==
    /\ last.op = "wake_on" /\ last.flags = {PIPE_WAKE_READ}
    /\ last.pre.wakeActual = Dirs
    /\ pipe.wakeActual = {PIPE_WAKE_WRITE}
    /\ pipe.wakeWanted = {PIPE_WAKE_READ}

\* C19: poll returns wakeActual as it is and changes nothing: the struct and
\* the registered handlers are the same after it, and it makes no socket
\* call nor any other call.
C19_PollIsSnapshot ==
    last.op = "poll"
        => /\ last.flags = last.pre.wakeActual
           /\ pipe = last.pre
           /\ ioh = last.preIoh
           /\ last.nio = 0 /\ last.calls = <<>>

\* poll reported READ while WRITE was still waited for
C19_Witness ==
    /\ last.op = "poll" /\ last.flags = {PIPE_WAKE_READ}
    /\ pipe.wakeWanted = {PIPE_WAKE_WRITE}

OpenArg == CHOOSE a \in last.flags : TRUE
ConnectCalls ==
    {i \in 1..Len(last.calls) :
        last.calls[i].f \in {"unix_nonblocking_connect", "inet_nonblocking_connect"}}

\* C20: an open whose argument is NULL or empty, or whose nonblocking
\* connect returns no descriptor, returns NULL and leaves no struct (any
\* allocated one is freed), no descriptor and no handler; any other open
\* returns a connection in STATE_CONNECTING with wakeWanted and wakeActual
\* empty, the guest pipe set and the descriptor the connect returned.
C20_OpenFailureLeavesNothing ==
    last.op = "init"
        => IF OpenArg \in {"NULL", ""} \/ \E i \in ConnectCalls : last.calls[i].fd < 0
           THEN /\ last.ret = 0
                /\ life = "unopened" /\ pipe = NoPipe /\ ioh = NoIoh
                /\ OpenArg \in {"NULL", ""} => last.calls = <<>>
                /\ CountCalls(last.calls, "g_free") = Cardinality(ConnectCalls)
           ELSE /\ last.ret = 1
                /\ life = "open"
                /\ pipe.state = STATE_CONNECTING
                /\ pipe.wakeWanted = {} /\ pipe.wakeActual = {}
                /\ pipe.hwpipe
                /\ \E i \in ConnectCalls : pipe.fd = last.calls[i].fd
                /\ CountCalls(last.calls, "g_free") = 0
                /\ ioh.rd = NoHandler

\* the nonblocking connect could not be started: the struct was freed
C20_Witness ==
    /\ last.op = "init" /\ last.ret = 0
    /\ \E i \in ConnectCalls : last.calls[i].fd < 0
    /\ CountCalls(last.calls, "g_free") = 1
    /\ life = "unopened"

RECURSIVE FirstIndex(_, _, _)
\* the first position from i on where text holds the character c, or 0
FirstIndex(text, c, i) ==
    IF i > Len(text) THEN 0
    ELSE IF SubSeq(text, i, i) = c THEN i
    ELSE FirstIndex(text, c, i + 1)

\* The host the socket layer connects to for a "host:port" address: the text
\* before the first colon.
InetHost(address) ==
    LET k == FirstIndex(address, ":", 1)
    IN IF k = 0 THEN address ELSE SubSeq(address, 1, k - 1)

\* what follows the host and its colon
InetPort(address) ==
    LET k == FirstIndex(address, ":", 1)
    IN IF k = 0 THEN "" ELSE SubSeq(address, k + 1, Len(address))

InetConnects == {i \in ConnectCalls : last.calls[i].f = "inet_nonblocking_connect"}

\* C21: every connect the tcp transport issues is to host 127.0.0.1,
\* whatever the guest's argument; the argument (as much of it as fits the
\* address buffer) is only what follows "127.0.0.1:".
C21_TcpTargetsLoopback ==
    \A i \in InetConnects :
        LET address == last.calls[i].addr[2]
            port == InetPort(address)
        IN /\ InetHost(address) = "127.0.0.1"
           /\ port = SubSeq(OpenArg, 1, Len(port))
           /\ Len(port) = Len(OpenArg) \/ Len(address) = AddressSize - 1

\* a tcp open whose argument names another host and port
C21_Witness ==
    /\ last.op = "init" /\ OpenArg = "example.org:80"
    /\ \E i \in InetConnects : InetHost(last.calls[i].addr[2]) = "127.0.0.1"
    /\ life = "open"

\* the guest address a transfer is made at: the pointer register's low half,
\* with its high half once the guest has switched to 64-bit addresses
AtPointer(at, ptr, g64) ==
    /\ at.lo = ptr.lo
    /\ g64 # 0 => at.hi = ptr.hi
    /\ g64 = 0 => at.hi = (IF ptr.lo < 0 THEN -1 ELSE 0)

C23_OverDrainAborts ==
    [][ /\ ~ttyLast.abort
        /\ ttyLast'.op = "read_buffer"
              => /\ ttyLast'.abort <=> U32Greater(tty.ptr_len, tty.data_count)
                 /\ ttyLast'.abort
                       => /\ ttyLast'.copy = <<>>
                          /\ tty' = tty
                          /\ irq' = irq
      ]_vars

\* 130 bytes asked of a device that holds 104, with the interrupt asserted
C23_Witness ==
    /\ ttyLast.op = "read_buffer" /\ ttyLast.abort
    /\ tty.ptr_len = 130 /\ tty.data_count = 104 /\ Len(tty.data) = 104
    /\ tty.ready = 1 /\ irq = 1

\* C24: the host stream is handed to the device only within the capacity
\* advertised, which is 128 minus the occupancy at that moment; so in every
\* state reached by host-stream callbacks and guest accesses (and loads that
\* stay within the buffer) the occupancy is between 0 and 128 and is the
\* number of bytes buffered.
C24_OccupancyWithinCapacity ==
    /\ []( ~ttyLast.ub
              => /\ tty.data_count >= 0 /\ tty.data_count <= 128
                 /\ Len(tty.data) = tty.data_count
                 /\ tty_can_receive(tty) = 128 - Len(tty.data) )
    /\ [][ ttyLast'.op = "receive"
              => /\ ttyLast'.ret <= 128 - tty.data_count
                 /\ tty'.data_count = tty.data_count + ttyLast'.ret
          ]_vars

\* the buffer filled to the last byte: nothing more is advertised
C24_Witness ==
    /\ ttyLast.op = "receive" /\ tty.data_count = 128
    /\ tty_can_receive(tty) = 0

\* the level goldfish_tty_load and every register access leave the line at
LineFor(s) == IF s.ready # 0 /\ s.data_count > 0 THEN 1 ELSE 0

\* C25: loading the record saved from the device's state gives back that
\* state: the same pointer, length, ready flag, occupancy and buffered bytes,
\* and the interrupt line as it was at the save.  This holds when the record
\* is loaded into the state it was saved from and when it is loaded into a
\* device that has moved on to any other state.
C25_SaveLoadRoundTrip ==
    [][ (ttyLast'.op = "load" /\ ttyLast'.version = GOLDFISH_TTY_SAVE_VERSION)
          => /\ ttyLast'.f = goldfish_tty_save(tty)
                   => /\ ttyLast'.ret = 0 /\ ~ttyLast'.ub
                      /\ tty' = tty
                      /\ irq' = irq
             /\ \A t \in SampleStates :
                   ttyLast'.f = goldfish_tty_save(t)
                       => /\ ttyLast'.ret = 0 /\ ~ttyLast'.ub
                          /\ tty' = [t EXCEPT !.cs = tty.cs]
                          /\ irq' = LineFor(t)
      ]_vars

\* a record saved with 40 bytes buffered, interrupts enabled and a pointer
\* above 4 GiB, loaded into a device that held other bytes and had the line low
C25_Witness ==
    /\ ttyLast.op = "load" /\ ttyLast.ret = 0
    /\ \E t \in SampleStates :
          /\ t.data_count = 40 /\ t.ready = 1 /\ t.ptr.hi # 0
          /\ ttyLast.f = goldfish_tty_save(t)
          /\ tty = [t EXCEPT !.cs = tty.cs]
    /\ irq = 1

\* C26: a load of a record whose version is neither the current one nor the
\* one before it returns -1 and leaves the pointer, the length, the ready
\* flag, the occupancy, the buffered bytes and the interrupt line as they
\* were.
C26_UnknownVersionRejected ==
    [][ (ttyLast'.op = "load"
            /\ ttyLast'.version \notin {GOLDFISH_TTY_SAVE_VERSION, GOLDFISH_TTY_SAVE_VERSION - 1})
          => /\ ttyLast'.ret = -1
             /\ ~ttyLast'.ub
             /\ tty' = tty
             /\ irq' = irq
      ]_vars

\* a version 3 record refused by a device holding 64 bytes with the line up
C26_Witness ==
    /\ ttyLast.op = "load" /\ ttyLast.version = 3 /\ ttyLast.ret = -1
    /\ ttyLast.f # goldfish_tty_save(tty)
    /\ tty.data_count = 64 /\ irq = 1

\* C27: a load of a record of the previous version, which holds a 32-bit
\* pointer, leaves the pointer with that value in its low half and 0 in its
\* high half, and the length, the ready flag, the occupancy and the buffered
\* bytes as a load of the current format decodes them; the interrupt line
\* follows the ready flag and the occupancy.
C27_LegacyPointerZeroExtended ==
    [][ (ttyLast'.op = "load" /\ ttyLast'.version = GOLDFISH_TTY_SAVE_VERSION - 1)
          => \A t \in SampleStates \cup {tty} :
                ttyLast'.f = LegacyRecord(t)
                    => /\ ttyLast'.ret = 0 /\ ~ttyLast'.ub
                       /\ tty'.ptr = [hi |-> 0, lo |-> t.ptr.lo]
                       /\ [tty' EXCEPT !.ptr = t.ptr] = [t EXCEPT !.cs = tty.cs]
                       /\ irq' = LineFor(t)
      ]_vars

\* a previous-version record whose pointer is 0xFFFFFFFC, with 40 bytes
C27_Witness ==
    /\ ttyLast.op = "load" /\ ttyLast.version = GOLDFISH_TTY_SAVE_VERSION - 1
    /\ ttyLast.ret = 0
    /\ tty.ptr = [hi |-> 0, lo |-> -4]
    /\ tty.data_count = 40 /\ tty.ptr_len = 64 /\ tty.ready = 1

\* n is the unsigned value of the 32 bits kept in v (v + 2^32 when v < 0)
IsU32(n, v) ==
    IF v >= 0 THEN n = v
    ELSE n >= 0 /\ (n - 2147483647) - 1 = (v + 2147483647) + 1

RECURSIVE SumLens(_)
\* the bytes the chunks hold in all
SumLens(chunks) == IF chunks = <<>> THEN 0 ELSE Head(chunks).len + SumLens(Tail(chunks))

\* C28: a write-buffer command on a device with a host stream forwards
\* exactly ptr_len bytes (as the unsigned 32-bit value it is), read from
\* guest memory at the pointer and upwards, as consecutive chunks of 1 to 64
\* bytes (none when the length is 0), and leaves the pointer, the length, the
\* receive buffer, the occupancy, the ready flag and the interrupt line as
\* they were.
C28_WriteBufferForwardsAll ==
    [][ (ttyLast'.op = "write_buffer" /\ tty.cs)
          => LET out == ttyLast'.out
             IN /\ \A i \in 1..Len(out) :
                      /\ out[i].len >= 1 /\ out[i].len <= 64
                      /\ out[i].addr = IF i = 1 THEN tty.ptr
                                       ELSE AddPtr(out[i - 1].addr, out[i - 1].len)
                /\ IsU32(SumLens(out), tty.ptr_len)
                /\ tty' = tty
                /\ irq' = irq
      ]_vars

\* the byte guest memory holds at an address
GuestByte(addr) == addr.lo % ByteMod

\* the n bytes of guest memory from addr upwards
GuestBytes(addr, n) == [k \in 1..n |-> GuestByte(AddPtr(addr, k - 1))]

RECURSIVE PeerStream(_, _)
\* what reaches the peer of the host stream: of each chunk written, the bytes
\* the stream took
PeerStream(chunks, acc) ==
    IF chunks = <<>> THEN <<>>
    ELSE GuestBytes(Head(chunks).addr, Head(acc)) \o PeerStream(Tail(chunks), Tail(acc))

\* C29: after a write-buffer command of 1 to 64 bytes (or more, below 2^31)
\* the peer of the host stream has received exactly the bytes of the guest's
\* buffer, each once and in order, however many bytes the stream took at each
\* write.
C29_WriteRoundTrip ==
    (ttyLast.op = "write_buffer" /\ tty.cs /\ tty.ptr_len > 0)
        => PeerStream(ttyLast.out, ttyLast.acc) = GuestBytes(tty.ptr, tty.ptr_len)

\* C30: a write to TTY_DATA_PTR replaces the low 32 bits of the pointer with
\* the value written and keeps the high 32 bits, so a guest that never writes
\* the high half leaves it as it was; a write to TTY_DATA_PTR_HIGH replaces
\* the high 32 bits and keeps the low ones; neither changes anything else of
\* the device; and writing the two halves in either order gives the same
\* pointer.
C30_PointerHalves ==
    /\ [][ /\ ttyLast'.op = "data_ptr"
                 => tty' = [tty EXCEPT !.ptr = [hi |-> tty.ptr.hi, lo |-> ttyLast'.value]]
           /\ ttyLast'.op = "data_ptr_high"
                 => tty' = [tty EXCEPT !.ptr = [hi |-> ttyLast'.value, lo |-> tty.ptr.lo]]
           /\ ttyLast'.op \in {"data_ptr", "data_ptr_high"} => irq' = irq
         ]_vars
    /\ [](\A a, b \in PtrWords :
              deposit64_high(deposit64_low(tty.ptr, a), b)
                  = deposit64_low(deposit64_high(tty.ptr, b), a))

\* the low half written to 0xFFFFFFFC over a pointer whose high half is 7
C30_Witness ==
    /\ ttyLast.op = "data_ptr" /\ ttyLast.value = -4
    /\ tty.ptr = [hi |-> 7, lo |-> -4]

\* C31: goldfish_64bit_guest is 0 until the first write to TTY_DATA_PTR_HIGH,
\* is 1 right after every such write, and once 1 stays 1 through every
\* register access, host-stream callback, save and load.
C31_HighModeLatches ==
    /\ [](goldfish_64bit_guest \in {0, 1}
            /\ (ttyLast.op = "none" => goldfish_64bit_guest = 0))
    /\ [][ /\ ttyLast'.op = "data_ptr_high" => goldfish_64bit_guest' = 1
           /\ ttyLast'.op # "data_ptr_high" => goldfish_64bit_guest' = goldfish_64bit_guest
           /\ goldfish_64bit_guest = 1 => goldfish_64bit_guest' = 1
         ]_vars

\* the mode is still on after a state load brought back a 32-bit pointer
C31_Witness ==
    /\ goldfish_64bit_guest = 1
    /\ ttyLast.op = "load" /\ ttyLast.ret = 0
    /\ ttyLast.version = GOLDFISH_TTY_SAVE_VERSION - 1 /\ tty.ptr.hi = 0

\* C32: the devices realized carry the ids 0, 1, 2, ... in creation order,
\* all below the maximum device count, and realize aborts only when the
\* maximum number of devices already exists.
C32_InstanceIds ==
    /\ \A i \in 1 .. Len(board.devices) :
          board.devices[i].id = i - 1 /\ board.devices[i].id < board.max
    /\ board.abort => Len(board.devices) = board.max

\* C33: the state of a connection changes only in the connect completion,
\* from STATE_CONNECTING to STATE_CONNECTED (valid descriptor) or to
\* STATE_CLOSING_SOCKET (failure); open returns a connection that is
\* connecting, a connected one never connects again, and one closed by the
\* socket stays so until it is freed.
C33_StateTransitions ==
    [][ /\ (last'.op = "init" /\ life' = "open") => pipe'.state = STATE_CONNECTING
        /\ (life = "open" /\ life' = "open" /\ pipe'.state # pipe.state) =>
              /\ pipe.state = STATE_CONNECTING
              /\ last'.op = "connect"
              /\ pipe'.state = IF last'.ret >= 0 THEN STATE_CONNECTED
                               ELSE STATE_CLOSING_SOCKET
        /\ (life = "open" /\ pipe.state = STATE_CONNECTED /\ life' = "open") =>
              pipe'.state = STATE_CONNECTED
        /\ (life = "open" /\ pipe.state = STATE_CLOSING_SOCKET /\ life' = "open") =>
              pipe'.state = STATE_CLOSING_SOCKET
      ]_vars
C33_Witness ==
    /\ last.op = "connect" /\ last.ret = SockFd
    /\ last.pre.state = STATE_CONNECTING
    /\ life = "open" /\ pipe.state = STATE_CONNECTED

\* C34: a connection on which the guest armed a write wake while it was
\* connecting does not stay connecting for ever: the connect completion
\* still runs and moves it on (or the guest closes it first).
C34_ArmedConnectCompletes ==
    (/\ life = "open" /\ pipe.state = STATE_CONNECTING
     /\ last.op = "wake_on" /\ PIPE_WAKE_WRITE \in last.flags)
        ~> (life # "open" \/ pipe.state # STATE_CONNECTING)

\* C35: the mask of every wake notification holds only directions that were
\* in wakeWanted when the readiness handler that delivered it started.
C35_WakeMaskWithinWanted ==
    \A i \in 1 .. Len(last.calls) :
        last.calls[i].f = "android_pipe_wake" =>
            last.calls[i].flags \subseteq last.pre.wakeWanted

\* C36: an allocated connection is only ever in STATE_CONNECTING,
\* STATE_CONNECTED or STATE_CLOSING_SOCKET, and it is freed by the guest's
\* close and by nothing else: no handler, wake_on or connect completion
\* calls g_free.
C36_OnlyGuestCloseFrees ==
    /\ [](life = "open" =>
            pipe.state \in {STATE_CONNECTING, STATE_CONNECTED, STATE_CLOSING_SOCKET})
    /\ [][ /\ (life = "open" /\ life' = "freed") => last'.op = "close"
           /\ last'.op \in {"connect", "read_ready", "write_ready", "wake_on"} =>
                 CountCalls(last'.calls, "g_free") = 0
         ]_vars
C36_Witness ==
    /\ life = "freed" /\ last.op = "close"
    /\ last.pre.state = STATE_CLOSING_SOCKET
    /\ CountCalls(last.calls, "g_free") = 1

\* C37: when every socket call of a run transfers all the bytes it was asked
\* for, the call returns the sum of the buffer sizes, and every buffer that
\* holds bytes is transferred whole, in one piece, in list order; buffers of
\* size 0 included in the list make no difference.
C37_FullTransfer ==
    (Ran /\ \A i \in 1 .. Len(run.io) : run.io[i].len = run.io[i].avail) =>
        /\ run.ret = SumSizes(run.sizes)
        /\ \A b \in 1 .. Len(run.sizes) :
              run.sizes[b] > 0 =>
                 \E i \in 1 .. Len(run.io) :
                    /\ run.io[i].buf = b /\ run.io[i].off = 0
                    /\ run.io[i].len = run.sizes[b]
        /\ \A i, j \in 1 .. Len(run.io) : i < j => run.io[i].buf < run.io[j].buf

\* C38: a load never runs past the receive buffer and leaves an occupancy of
\* at most 128, whatever occupancy the record names.
C38_LoadWithinBuffer ==
    ttyLast.op = "load" =>
        /\ ~ttyLast.ub
        /\ tty.data_count >= 0 /\ tty.data_count <= DataSize
        /\ Len(tty.data) <= DataSize

\* C39: every chunk a write-buffer command reads from guest memory and
\* writes to the host stream is 1 to 64 bytes long, for every 32-bit length
\* the guest set.
C39_ChunkLengths ==
    ttyLast.op = "write_buffer" =>
        \A i \in 1 .. Len(ttyLast.out) :
            ttyLast.out[i].len >= 1 /\ ttyLast.out[i].len <= TempSize
====
